---------------------------- MODULE Spec2Model ----------------------------
(***************************************************************************)
(* Model of seclist/parser.py: locating the first index page of a PDF,     *)
(* rendering it to text, cutting the text into page chunks, parsing each   *)
(* chunk into security records and checking the record count of the whole  *)
(* document against the count the document declares.                       *)
(*                                                                         *)
(* Text is modelled character by character: a byte string or a str is a    *)
(* sequence of one-character strings.  The byte 0xFF (never valid UTF-8)   *)
(* is written BadByte.                                                     *)
(***************************************************************************)
EXTENDS Integers, Sequences, FiniteSets, TLC

(***************************************************************************)
(* Characters.                                                             *)
(***************************************************************************)
FF == "\f"
NL == "\n"
BadByte == "0xFF"

UpperSeq == <<"A","B","C","D","E","F","G","H","I","J","K","L","M",
              "N","O","P","Q","R","S","T","U","V","W","X","Y","Z">>
LowerSeq == <<"a","b","c","d","e","f","g","h","i","j","k","l","m",
              "n","o","p","q","r","s","t","u","v","w","x","y","z">>
DigitSeq == <<"0","1","2","3","4","5","6","7","8","9">>

UpperSet == {UpperSeq[k] : k \in 1..26}
LowerSet == {LowerSeq[k] : k \in 1..26}
DigitSet == {DigitSeq[k] : k \in 1..10}
AlnumSet == UpperSet \cup LowerSet \cup DigitSet

\* The ASCII characters str.strip() removes and the regex class \s matches.
WhiteSpace == {" ", "\t", NL, "\r", FF}

ToLowerTab == [c \in UpperSet |-> LowerSeq[CHOOSE k \in 1..26 : UpperSeq[k] = c]]
DigitTab == [c \in DigitSet |-> (CHOOSE k \in 1..10 : DigitSeq[k] = c) - 1]

SetMin(S) == CHOOSE x \in S : \A y \in S : x <= y
Min2(a, b) == IF a <= b THEN a ELSE b

(***************************************************************************)
(* Python's str and bytes operations, on 0-based offsets as in the code.   *)
(***************************************************************************)
\* s[a:b] for 0 <= a, 0 <= b: out-of-range offsets are clamped.
Slice(s, a, b) == SubSeq(s, a + 1, Min2(b, Len(s)))

\* s[a:]
SliceFrom(s, a) == SubSeq(s, a + 1, Len(s))

\* s.lower()
Lower(s) == [k \in 1..Len(s) |-> IF s[k] \in UpperSet THEN ToLowerTab[s[k]] ELSE s[k]]

\* s.find(sub): the offset of the first occurrence, or -1.
Find(sub, s) ==
    LET hits == {k \in 0..(Len(s) - Len(sub)) : SubSeq(s, k + 1, k + Len(sub)) = sub}
    IN  IF hits = {} THEN -1 ELSE SetMin(hits)

\* sub in s
In(sub, s) == Find(sub, s) # -1

\* s.replace(old, ''): the non-overlapping occurrences, left to right, in one pass.
RECURSIVE Remove(_, _)
Remove(s, old) ==
    LET k == Find(old, s)
    IN  IF k = -1 THEN s
        ELSE SubSeq(s, 1, k) \o Remove(SliceFrom(s, k + Len(old)), old)

\* s.strip()
Strip(s) ==
    LET keep == {k \in 1..Len(s) : s[k] \notin WhiteSpace}
    IN  IF keep = {} THEN <<>>
        ELSE SubSeq(s, SetMin(keep), CHOOSE k \in keep : \A j \in keep : j <= k)

\* s.split('\n')
RECURSIVE Split(_)
Split(s) ==
    LET k == Find(<<NL>>, s)
    IN  IF k = -1 THEN <<s>>
        ELSE <<SubSeq(s, 1, k)>> \o Split(SliceFrom(s, k + 1))

\* ''.join([c for c in s if c.isdigit()])
RECURSIVE DigitsOf(_)
DigitsOf(s) ==
    IF s = <<>> THEN <<>>
    ELSE (IF Head(s) \in DigitSet THEN <<Head(s)>> ELSE <<>>) \o DigitsOf(Tail(s))

\* int(s) for a non-empty string of digits.
RECURSIVE StrToInt(_)
StrToInt(s) ==
    IF s = <<>> THEN 0
    ELSE 10 * StrToInt(SubSeq(s, 1, Len(s) - 1)) + DigitTab[s[Len(s)]]

\* str(n) for n >= 0, as an f-string formats it.
RECURSIVE IntToStr(_)
IntToStr(n) ==
    IF n < 10 THEN <<DigitSeq[n + 1]>>
    ELSE IntToStr(n \div 10) \o <<DigitSeq[(n % 10) + 1]>>

\* bytes.decode('utf-8') succeeds: no byte of the chunk is invalid.
Decodable(b) == \A k \in 1..Len(b) : b[k] # BadByte

\* The offset of the first character at or after k that is not in cls
\* (Len(s) if there is none): where a run of cls characters starting at k ends.
RunEnd(s, k, cls) ==
    LET stops == {j \in k..(Len(s) - 1) : s[j + 1] \notin cls}
    IN  IF stops = {} THEN (IF k > Len(s) THEN k ELSE Len(s)) ELSE SetMin(stops)

(***************************************************************************)
(* String constants of the code.                                           *)
(***************************************************************************)
s_run == <<"r","u","n">>
s_date == <<"d","a","t","e">>
s_date_colon == <<"d","a","t","e",":">>
s_run_date == <<"r","u","n"," ","d","a","t","e">>
s_page == <<"p","a","g","e">>
s_run_time == <<"r","u","n"," ","t","i","m","e">>
s_year == <<"y","e","a","r">>
s_CUSIP_NO == <<"C","U","S","I","P"," ","N","O">>
s_ISSUER_NAME == <<"I","S","S","U","E","R"," ","N","A","M","E">>
s_ISSUER_DESCRIPTION == <<"I","S","S","U","E","R"," ","D","E","S","C","R","I","P","T","I","O","N">>
s_STATUS == <<"S","T","A","T","U","S">>
s_total_count == <<"t","o","t","a","l"," ","c","o","u","n","t">>
s_ADDED == <<"A","D","D","E","D">>
s_DELETED == <<"D","E","L","E","T","E","D">>
s_star == <<"*">>
s_None == <<"N","o","n","e">>

(***************************************************************************)
(* Exceptions: the class raised, its message and the values formatted into *)
(* the message.                                                            *)
(***************************************************************************)
NoError == [type |-> "", msg |-> "", args |-> <<>>]
Raise(type, msg, args) == [type |-> type, msg |-> msg, args |-> args]

(***************************************************************************)
(* Values of the local expected_lines: not yet assigned, None, or an int.  *)
(***************************************************************************)
Unbound == [tag |-> "unbound", n |-> 0]
PyNone == [tag |-> "None", n |-> 0]
PyInt(n) == [tag |-> "int", n |-> n]

(***************************************************************************)
(* The regular expressions.  Each XxxEnd(s, p) is the offset at which the  *)
(* pattern's match starting at offset p ends, or -1 if it does not match   *)
(* there; Search picks the leftmost start, as re.search and finditer do.    *)
(***************************************************************************)
NoMatch == <<-1, -1>>

AllDigits(s) == \A k \in 1..Len(s) : s[k] \in DigitSet

\* b'run[ ]*?date.*?\x0c' with DOTALL and IGNORECASE
PageSepEnd(text, p) ==
    IF Lower(Slice(text, p, p + 3)) # s_run THEN -1
    ELSE LET j == RunEnd(text, p + 3, {" "})
         IN  IF Lower(Slice(text, j, j + 4)) # s_date THEN -1
             ELSE LET feeds == {k \in (j + 4)..(Len(text) - 1) : text[k + 1] = FF}
                  IN  IF feeds = {} THEN -1 ELSE SetMin(feeds) + 1

\* '[0-9]{1,2}/[0-9]{1,2}/[0-9]{4,4}'
DateEnd(s, p) ==
    LET ends == {e \in (p + 8)..Min2(p + 10, Len(s)) :
                   \E a \in 1..2, b \in 1..2 :
                      /\ e = p + a + b + 6
                      /\ Slice(s, p, p + a) # <<>> /\ AllDigits(Slice(s, p, p + a))
                      /\ s[p + a + 1] = "/"
                      /\ AllDigits(Slice(s, p + a + 1, p + a + 1 + b))
                      /\ s[p + a + b + 2] = "/"
                      /\ AllDigits(Slice(s, p + a + b + 2, e))}
    IN  IF ends = {} THEN -1 ELSE CHOOSE e \in ends : \A f \in ends : f <= e

\* 'run\s*?date:\s*?[0-9]{1,2}/[0-9]{1,2}/[0-9]{4,4}' with IGNORECASE
RunDateEnd(s, p) ==
    IF Lower(Slice(s, p, p + 3)) # s_run THEN -1
    ELSE LET j == RunEnd(s, p + 3, WhiteSpace)
         IN  IF Lower(Slice(s, j, j + 5)) # s_date_colon THEN -1
             ELSE DateEnd(s, RunEnd(s, j + 5, WhiteSpace))

\* The most digits 'page\s*?[0-9]{1,40}' takes.
MaxPageDigits == 40

\* 'page\s*?[0-9]{1,40}' with IGNORECASE
PageNumEnd(s, p) ==
    IF Lower(Slice(s, p, p + 4)) # s_page THEN -1
    ELSE LET j == RunEnd(s, p + 4, WhiteSpace)
             d == RunEnd(s, j, DigitSet)
         IN  IF d <= j THEN -1 ELSE j + Min2(d - j, MaxPageDigits)

\* ends[p] is the end of the pattern's match starting at offset p, or -1.
Search(from, ends) ==
    LET starts == {p \in DOMAIN ends : p >= from /\ ends[p] # -1}
    IN  IF starts = {} THEN NoMatch
        ELSE <<SetMin(starts), ends[SetMin(starts)]>>

PageSepEnds(s) == [p \in 0..Len(s) |-> PageSepEnd(s, p)]
DateEnds(s) == [p \in 0..Len(s) |-> DateEnd(s, p)]
RunDateEnds(s) == [p \in 0..Len(s) |-> RunDateEnd(s, p)]
PageNumEnds(s) == [p \in 0..Len(s) |-> PageNumEnd(s, p)]

\* re.search(pattern, s), and the next match of finditer at or after from.
SearchPageSep(s, from) == Search(from, PageSepEnds(s))
SearchDate(s) == Search(0, DateEnds(s))
SearchRunDate(s) == Search(0, RunDateEnds(s))
SearchPageNum(s) == Search(0, PageNumEnds(s))

\* '^[a-zA-Z0-9]{6,6} [a-zA-Z0-9]{2,2} [a-zA-Z0-9]{1,1}$' with re.match
CusipMatch(c) ==
    /\ Len(c) = 11
    /\ \A k \in {1, 2, 3, 4, 5, 6, 8, 9, 11} : c[k] \in AlnumSet
    /\ c[7] = " " /\ c[10] = " "

(***************************************************************************)
(* validate_header: the conditions in the order the code evaluates them;   *)
(* utf_list is lines[:4], which is shorter than 4 on a short chunk.        *)
(***************************************************************************)
HeaderError == Raise("ValueError", "Malformed page header.", <<>>)
IndexError == Raise("IndexError", "list index out of range", <<>>)

\* A variant of validate_header: the STATUS label is not required.
validate_header_no_status(utf_list) ==
    IF \/ ~In(s_run_date, Lower(utf_list[1]))
       \/ ~In(s_page, Lower(utf_list[1]))
    THEN HeaderError
    ELSE IF Len(utf_list) < 2 THEN IndexError
    ELSE IF \/ ~In(s_run_time, Lower(utf_list[2]))
            \/ ~In(s_year, Lower(utf_list[2]))
    THEN HeaderError
    ELSE IF Len(utf_list) < 3 THEN IndexError
    ELSE IF utf_list[3] # <<>> THEN HeaderError
    ELSE IF Len(utf_list) < 4 THEN IndexError
    ELSE IF \/ ~In(s_CUSIP_NO, utf_list[4])
            \/ ~In(s_ISSUER_NAME, utf_list[4])
            \/ ~In(s_ISSUER_DESCRIPTION, utf_list[4])
    THEN HeaderError
    ELSE NoError

validate_header(utf_list) ==
    IF \/ ~In(s_run_date, Lower(utf_list[1]))
       \/ ~In(s_page, Lower(utf_list[1]))
    THEN HeaderError
    ELSE IF Len(utf_list) < 2 THEN IndexError
    ELSE IF \/ ~In(s_run_time, Lower(utf_list[2]))
            \/ ~In(s_year, Lower(utf_list[2]))
    THEN HeaderError
    ELSE IF Len(utf_list) < 3 THEN IndexError
    ELSE IF utf_list[3] # <<>> THEN HeaderError
    ELSE IF Len(utf_list) < 4 THEN IndexError
    ELSE IF \/ ~In(s_CUSIP_NO, utf_list[4])
            \/ ~In(s_ISSUER_NAME, utf_list[4])
            \/ ~In(s_ISSUER_DESCRIPTION, utf_list[4])
            \/ ~In(s_STATUS, utf_list[4])
    THEN HeaderError
    ELSE NoError

(***************************************************************************)
(* extract_date and extract_pagenum: [error, value].  m.start() on a       *)
(* search that found nothing raises AttributeError.                        *)
(***************************************************************************)
AttributeError == Raise("AttributeError", "'NoneType' object has no attribute 'start'", <<>>)

extract_date(line) ==
    LET m1 == SearchRunDate(line)
    IN  IF m1 = NoMatch THEN [error |-> AttributeError, value |-> <<>>]
        ELSE LET date_full == Slice(line, m1[1], m1[2])
                 m2 == SearchDate(line)
             IN  [error |-> NoError, value |-> Slice(date_full, m2[1], m2[2])]

extract_pagenum(line) ==
    LET m == SearchPageNum(line)
    IN  IF m = NoMatch THEN [error |-> AttributeError, value |-> 0]
        ELSE [error |-> NoError,
              value |-> StrToInt(Strip(Remove(Lower(Slice(line, m[1], m[2])), s_page)))]

(***************************************************************************)
(* parse_page.  The column slices of a data line, the fields derived from  *)
(* them, and the loop over the lines after the header.                     *)
(***************************************************************************)
\* A variant of RawCusip: the slice ends where the CUSIP label ends.
RawCusipToLabelEnd(line, cols) ==
    Slice(line, cols.cusip_s, cols.cusip_s + Len(s_CUSIP_NO))

RawCusip(line, cols) == Slice(line, cols.cusip_s, cols.issuer_s)
RawIssuer(line, cols) == Slice(line, cols.issuer_s, cols.descrp_s)
RawDescription(line, cols) == SliceFrom(line, cols.descrp_s)

NormCusip(cusip) == Strip(Remove(cusip, s_star))
NormDescription(description) == Strip(Remove(Remove(description, s_ADDED), s_DELETED))
\* A variant of Optionable: the marker is looked for after normalization.
OptionableNormalized(cusip) == In(s_star, NormCusip(cusip))

Optionable(cusip) == In(s_star, cusip)
Added(description) == In(s_ADDED, description)
Deleted(description) == In(s_DELETED, description)

Security(line, cols, date, pagenum) ==
    [cusip       |-> NormCusip(RawCusip(line, cols)),
     issuer      |-> Strip(RawIssuer(line, cols)),
     description |-> NormDescription(RawDescription(line, cols)),
     date        |-> date,
     page        |-> pagenum,
     optionable  |-> Optionable(RawCusip(line, cols)),
     added       |-> Added(RawDescription(line, cols)),
     deleted     |-> Deleted(RawDescription(line, cols))]

\* raise MalformedDataError(...): the module defines no such name.
MalformedCusip(cusip) ==
    Raise("NameError", "name 'MalformedDataError' is not defined", <<>>)

\* int('') on a 'total count' line without a digit
IntError == Raise("ValueError", "invalid literal for int() with base 10: ''", <<>>)

\* acc: [error, securities, expected_lines, raw]; raw keeps, for each record
\* appended, the lines it was built from: its data line and the header lines
\* 0 and 3 of its page.
RECURSIVE ParseLines(_, _, _, _, _, _)
ParseLines(lines, k, cols, date, pagenum, acc) ==
    IF k > Len(lines) THEN acc
    ELSE LET line == lines[k]
         IN  IF Strip(line) = <<>>
             THEN ParseLines(lines, k + 1, cols, date, pagenum, acc)
             ELSE IF In(s_total_count, Lower(line))
             THEN IF DigitsOf(line) = <<>>
                  THEN [acc EXCEPT !.error = IntError]
                  ELSE ParseLines(lines, k + 1, cols, date, pagenum,
                         [acc EXCEPT !.expected_lines = PyInt(StrToInt(DigitsOf(line)))])
             ELSE LET security == Security(line, cols, date, pagenum)
                  IN  IF ~CusipMatch(security.cusip)
                      THEN [acc EXCEPT !.error = MalformedCusip(security.cusip)]
                      ELSE ParseLines(lines, k + 1, cols, date, pagenum,
                             [acc EXCEPT
                                !.securities = Append(@, security),
                                !.raw = Append(@, [line  |-> line,
                                                   line0 |-> lines[1],
                                                   line3 |-> lines[4]])])

Failed(e) == [error |-> e, securities |-> <<>>, expected_lines |-> PyNone, raw |-> <<>>]

PageFeedError == Raise("ValueError", "Page feed should be final byte.", <<>>)
DecodeError == Raise("UnicodeDecodeError", "invalid start byte", <<>>)

parse_page(bytes_arr) ==
    IF bytes_arr = <<>> THEN Failed(Raise("IndexError", "index out of range", <<>>))
    ELSE IF bytes_arr[Len(bytes_arr)] # FF THEN Failed(PageFeedError)
    ELSE IF ~Decodable(SubSeq(bytes_arr, 1, Len(bytes_arr) - 1)) THEN Failed(DecodeError)
    ELSE LET lines == Split(SubSeq(bytes_arr, 1, Len(bytes_arr) - 1))
             hdr == validate_header(SubSeq(lines, 1, Min2(4, Len(lines))))
         IN  IF hdr # NoError THEN Failed(hdr)
             ELSE LET date == extract_date(lines[1])
                      pagenum == extract_pagenum(lines[1])
                      cols == [cusip_s  |-> Find(s_CUSIP_NO, lines[4]),
                               issuer_s |-> Find(s_ISSUER_NAME, lines[4]),
                               descrp_s |-> Find(s_ISSUER_DESCRIPTION, lines[4])]
                  IN  IF date.error # NoError THEN Failed(date.error)
                      ELSE IF pagenum.error # NoError THEN Failed(pagenum.error)
                      ELSE LET r == ParseLines(lines, 5, cols, date.value, pagenum.value,
                                       [error |-> NoError, securities |-> <<>>,
                                        expected_lines |-> PyNone, raw |-> <<>>])
                           IN  IF r.error # NoError THEN Failed(r.error) ELSE r

(***************************************************************************)
(* The external tool.  A PDF is the sequence of its pages' rendered texts; *)
(* pdftotext -f first -l last writes the texts of those pages, one after   *)
(* the other.  A run of the tool ends ok, with a non-zero status, or the   *)
(* tool is missing (OSError).                                              *)
(***************************************************************************)
ToolRuns == {"ok", "nonzero", "missing"}

RECURSIVE Concat(_)
Concat(ss) == IF ss = <<>> THEN <<>> ELSE Head(ss) \o Concat(Tail(ss))

Render(pdf, first, last) == Concat(SubSeq(pdf, first, Min2(last, Len(pdf))))

ToolError(run) ==
    IF run = "nonzero" THEN Raise("ValueError", "Malformed data. Parse failed.", <<>>)
    ELSE Raise("RuntimeError",
               "It looks like you are not running Linux or dont have pdftotext installed", <<>>)

(***************************************************************************)
(* Documents.  Header lines, data lines and footers, and the pages and     *)
(* PDFs built from them.                                                   *)
(***************************************************************************)
\* header line 0 of the spec scenario
L0_ok ==
    <<"R","u","n"," ","D","a","t","e",":"," ","1","/","2","/","2","0","2","0",
      " "," ","P","a","g","e"," ","1">>
L0_page2 ==
    <<"R","u","n"," ","D","a","t","e",":"," ","1","/","2","/","2","0","2","0",
      " "," ","P","a","g","e"," ","2">>
\* upper case, two-digit day and month
L0_upper ==
    <<"R","U","N"," ","D","A","T","E",":"," "," ","1","1","/","2","2","/","2",
      "0","2","1","\t","P","A","G","E"," "," ","1","2">>
\* the dated token is not at the start of the line
L0_second ==
    <<"r","u","n"," ","d","a","t","e"," ","r","u","n"," ","d","a","t","e",":",
      " ","1","/","2","/","2","0","2","0"," ","p","a","g","e"," ","3">>
\* a date stands before the dated token
L0_earlier ==
    <<"r","u","n"," ","d","a","t","e"," ","3","/","4","/","2","0","2","1"," ",
      "r","u","n"," ","d","a","t","e",":"," ","1","/","2","/","2","0","2","0",
      " ","p","a","g","e"," ","1">>
\* no D/D/YYYY date
L0_nodate ==
    <<"R","u","n"," ","D","a","t","e",":"," ","t","o","d","a","y"," "," ","P",
      "a","g","e"," ","1">>
\* no page label
L0_nopage ==
    <<"R","u","n"," ","D","a","t","e",":"," ","1","/","2","/","2","0","2",
      "0">>
\* a page label without a number
L0_nopagenum ==
    <<"R","u","n"," ","D","a","t","e",":"," ","1","/","2","/","2","0","2","0",
      " "," ","P","a","g","e">>
\* no space in the run date label
L0_tight ==
    <<"R","u","n","D","a","t","e",":"," ","1","/","2","/","2","0","2","0"," ",
      " ","P","a","g","e"," ","1">>
L1_ok ==
    <<"R","u","n"," ","T","i","m","e",":"," ","1","0",":","0","0"," "," ","Y",
      "e","a","r"," ","2","0","2","0">>
L1_upper ==
    <<"R","U","N"," ","T","I","M","E",":"," ","1","0",":","0","0"," "," ","Y",
      "E","A","R"," ","2","0","2","0">>
L1_noyear ==
    <<"R","u","n"," ","T","i","m","e",":"," ","1","0",":","0","0">>
L1_notime ==
    <<"Y","e","a","r"," ","2","0","2","0">>
\* columns at offsets 0, 12 and 32
L3_ok ==
    <<"C","U","S","I","P"," ","N","O"," "," "," "," ","I","S","S","U","E","R",
      " ","N","A","M","E"," "," "," "," "," "," "," "," "," ","I","S","S","U",
      "E","R"," ","D","E","S","C","R","I","P","T","I","O","N"," "," "," ","S",
      "T","A","T","U","S">>
\* line 3 of the spec scenario
L3_scenario ==
    <<"C","U","S","I","P"," ","N","O"," "," "," "," ","I","S","S","U","E","R",
      " ","N","A","M","E"," "," "," "," "," "," "," "," "," ","I","S","S","U",
      "E","R"," ","D","E","S","C","R","I","P","T","I","O","N">>
L3_nocusip ==
    <<"C","U","S","I","P"," "," "," "," "," "," "," ","I","S","S","U","E","R",
      " ","N","A","M","E"," "," "," "," "," "," "," "," "," ","I","S","S","U",
      "E","R"," ","D","E","S","C","R","I","P","T","I","O","N"," "," "," ","S",
      "T","A","T","U","S">>
L3_noissuer ==
    <<"C","U","S","I","P"," ","N","O"," "," "," "," ","I","S","S","U","E","R",
      " "," "," "," "," "," "," "," "," "," "," "," "," "," ","I","S","S","U",
      "E","R"," ","D","E","S","C","R","I","P","T","I","O","N"," "," "," ","S",
      "T","A","T","U","S">>
L3_nodescr ==
    <<"C","U","S","I","P"," ","N","O"," "," "," "," ","I","S","S","U","E","R",
      " ","N","A","M","E"," "," "," "," "," "," "," "," "," ","D","E","S","C",
      "R","I","P","T","I","O","N"," "," "," "," "," "," "," "," "," "," ","S",
      "T","A","T","U","S">>
L3_lower ==
    <<"c","u","s","i","p"," ","n","o"," "," "," "," ","i","s","s","u","e","r",
      " ","n","a","m","e"," "," "," "," "," "," "," "," "," ","i","s","s","u",
      "e","r"," ","d","e","s","c","r","i","p","t","i","o","n"," "," "," ","s",
      "t","a","t","u","s">>
\* the issuer label before the CUSIP label
L3_swapped ==
    <<"I","S","S","U","E","R"," ","N","A","M","E"," ","C","U","S","I","P"," ",
      "N","O"," "," "," "," "," "," "," "," "," "," "," "," ","I","S","S","U",
      "E","R"," ","D","E","S","C","R","I","P","T","I","O","N"," "," "," ","S",
      "T","A","T","U","S">>
D_acme ==
    <<"1","2","3","4","5","6"," ","7","8"," ","9"," ","A","C","M","E"," ","C",
      "O","R","P"," "," "," "," "," "," "," "," "," "," "," ","W","I","D","G",
      "E","T"," ","M","A","K","E","R">>
\* the data line of the spec scenario
D_scenario ==
    <<"1","2","3","4","5","6"," ","7","8"," ","9"," ","A","C","M","E"," ","C",
      "O","R","P"," "," "," "," "," "," "," "," "," "," ","W","I","D","G","E",
      "T"," ","M","A","K","E","R">>
D_star ==
    <<"B","3","8","5","6","4"," ","1","0"," ","8","*","B","E","T","A"," ","I",
      "N","C"," "," "," "," "," "," "," "," "," "," "," "," ","C","O","M"," ",
      "A","D","D","E","D">>
D_deleted ==
    <<"0","0","0","8","0","Q"," ","A","B"," ","1"," ","G","A","M","M","A"," ",
      "L","T","D"," "," "," "," "," "," "," "," "," "," "," ","O","R","D"," ",
      "D","E","L","E","T","E","D">>
D_both ==
    <<"G","0","0","8","3","B"," ","1","0"," ","8","*","D","E","L","T","A"," ",
      "P","L","C"," "," "," "," "," "," "," "," "," "," "," ","A","D","D","E",
      "D"," ","D","E","L","E","T","E","D">>
\* an ADDED left over once the inner ADDED is removed
D_nested ==
    <<"H","0","1","5","3","1"," ","1","0"," ","4"," ","E","P","S","I","L","O",
      "N"," ","S","A"," "," "," "," "," "," "," "," "," "," ","A","D","A","D",
      "D","E","D","D","E","D">>
\* five characters in the first group
D_badcusip ==
    <<"1","2","3","4","5"," ","7","8"," ","9"," "," ","Z","E","T","A"," ","C",
      "O"," "," "," "," "," "," "," "," "," "," "," "," "," ","C","O","M">>
D_blank ==
    <<" "," "," ">>
F_1 ==
    <<"t","o","t","a","l"," ","c","o","u","n","t",":"," ","1">>
F_2 ==
    <<"T","o","t","a","l"," ","C","o","u","n","t",":"," ","2">>
F_nodigit ==
    <<"T","O","T","A","L"," ","C","O","U","N","T">>
\* a cover page
T_cover ==
    <<"S","E","C","U","R","I","T","I","E","S"," ","L","I","S","T">>


\* The most pages of a PDF, the most lines after the header of a page, and
\* the most pieces of a text made of pieces.
MaxPages == 2
MaxBody == 2
MaxPieces == 4

SeqsUpTo(S, n) == UNION {[1..k -> S] : k \in 0..n}

\* The text pdftotext writes for a page: its lines, each ended by a newline,
\* then the page feed.
MkPage(lines) == Concat([k \in 1..Len(lines) |-> lines[k] \o <<NL>>]) \o <<FF>>

HeaderOk == <<L0_ok, L1_ok, <<>>, L3_ok>>

Line0Set == {L0_ok, L0_page2, L0_upper, L0_second, L0_earlier, L0_nodate,
             L0_nopage, L0_nopagenum, L0_tight}
Line1Set == {L1_ok, L1_upper, L1_noyear, L1_notime}
Line2Set == {<<>>, <<" ">>, <<"x">>}
Line3Set == {L3_ok, L3_scenario, L3_nocusip, L3_noissuer, L3_nodescr, L3_lower,
             L3_swapped}
BodyLineSet == {D_acme, D_star, D_deleted, D_both, D_nested, D_badcusip, D_blank,
                F_1, F_2, F_nodigit}

Headers ==
    {<<l0, L1_ok, <<>>, L3_ok>> : l0 \in Line0Set}
    \cup {<<L0_ok, l1, <<>>, L3_ok>> : l1 \in Line1Set}
    \cup {<<L0_ok, L1_ok, l2, L3_ok>> : l2 \in Line2Set}
    \cup {<<L0_ok, L1_ok, <<>>, l3>> : l3 \in Line3Set}

\* One page with each header, two records and the footer; pages cut short
\* inside the header; a page with a byte that is not UTF-8.
HeaderPages ==
    {MkPage(h \o <<D_acme, D_both, F_2>>) : h \in Headers}
    \cup {L0_ok \o <<FF>>, MkPage(<<L0_ok>>), MkPage(<<L0_ok, L1_ok>>),
          MkPage(<<L0_ok, L1_ok, <<>>>>), MkPage(<<L0_ok, <<BadByte>>>>)}

\* One page with the good header and each body of at most MaxBody lines.
RecordPages == {MkPage(HeaderOk \o b) : b \in SeqsUpTo(BodyLineSet, MaxBody)}

\* The page of the spec scenario, and the same page with the STATUS label
\* on line 3 and the description aligned to its label.
ScenarioPage == MkPage(<<L0_ok, L1_ok, <<>>, L3_scenario, D_scenario, F_1>>)
AlignedPage == MkPage(<<L0_ok, L1_ok, <<>>, L3_ok, D_acme, F_1>>)

\* The pages of the PDFs of several pages: a cover page, a page that renders
\* to nothing, index pages with and without records and footer, a page with
\* a malformed CUSIP, a text with two markers and three page feeds, and a
\* text that does not end with a page feed.
DocPages ==
    {MkPage(<<T_cover>>),
     <<>>,
     ScenarioPage,
     AlignedPage,
     MkPage(<<L0_page2, L1_ok, <<>>, L3_ok, D_star>>),
     MkPage(<<L0_page2, L1_ok, <<>>, L3_ok>>),
     MkPage(<<L0_page2, L1_ok, <<>>, L3_ok, D_deleted, F_2>>),
     MkPage(<<L0_ok, L1_ok, <<>>, L3_ok, D_badcusip>>),
     s_run_date \o <<FF>> \o <<"R","U","N","D","A","T","E","x",FF,FF>>,
     L0_ok \o <<NL>>}

PDFs ==
    SeqsUpTo(DocPages, MaxPages)
    \cup {<<p>> : p \in HeaderPages \cup RecordPages}

\* Texts that are no index: pieces with the marker amid other bytes, the
\* marker without a space, the two halves of a marker with two spaces, the
\* page feed and a newline, in any order.
Pieces ==
    {<<"x"," ","r","u","n"," ","d","a","t","e"," ","y">>,
     <<"R","U","N","D","A","T","E">>,
     <<"R","u","n"," "," ">>,
     <<"d","a","t","e">>,
     <<FF>>,
     <<NL>>}

Streams == SeqsUpTo(Pieces, MaxPieces)

\* The functions of the module a caller starts with.
EntryPoints == {"parse_pdf_index", "yield_pages_as_bytes"}

(***************************************************************************)
(* The state of one call parse_pdf_index(pdf_file), or of one caller that   *)
(* runs the generator yield_pages_as_bytes(pdf_file) to its end.           *)
(***************************************************************************)
VARIABLES
    entry,           \* the function called: parse_pdf_index, or the generator alone
    pdf_file,        \* the PDF: the rendered text of each of its pages
    pc,              \* where the call stands
    i,               \* find_first_page: the candidate page
    first_page,      \* get_pdf_text_bytes: the page find_first_page returned
    pdf_text,        \* yield_pages_as_bytes: the rendered text
    pos,             \* yield_pages_as_bytes: where finditer searches next
    yielded,         \* the spans [start, end) of pdf_text yielded so far
    page,            \* parse_pdf_index: the chunk being parsed
    securities,      \* parse_pdf_index: the records accumulated
    raw,             \* parse_page's locals behind each accumulated record
    expected_lines,  \* parse_pdf_index: the declared count
    error,           \* the exception the call raised
    result           \* the list the call returned

vars == <<entry, pdf_file, pc, i, first_page, pdf_text, pos, yielded, page, securities,
          raw, expected_lines, error, result>>

\* range(1, 4) ends before this page.
SearchEnd == 4

Init ==
    /\ entry \in EntryPoints
    /\ pdf_file \in IF entry = "parse_pdf_index" THEN PDFs ELSE Streams
    /\ pc = "find_first_page"
    /\ i = 1
    /\ first_page = 0
    /\ pdf_text = <<>>
    /\ pos = 0
    /\ yielded = <<>>
    /\ page = <<>>
    /\ securities = <<>>
    /\ raw = <<>>
    /\ expected_lines = Unbound
    /\ error = NoError
    /\ result = <<>>

\* An exception leaves parse_pdf_index: nothing is returned.
Raised(e) ==
    /\ pc' = "raised"
    /\ error' = e
    /\ result' = <<>>

\* is_first_page(pdf_file, i): what find_first_page tests.  It returns the
\* rendered text of page i (line 43); the search of line 47 is never reached.
is_first_page(pdf, page_num) == Render(pdf, page_num, page_num)

\* bool(x) of a bytes value
Truthy(stdout) == stdout # <<>>

\* find_first_page: one turn of the loop over the candidates 1..3.
FindFirstPage ==
    /\ pc = "find_first_page"
    /\ \E run \in ToolRuns :
         IF run # "ok"
         THEN /\ Raised(ToolError(run))
              /\ UNCHANGED <<i, first_page>>
         ELSE IF Truthy(is_first_page(pdf_file, i))
         THEN /\ first_page' = i
              /\ pc' = "get_pdf_text_bytes"
              /\ UNCHANGED <<i, error, result>>
         ELSE IF i + 1 < SearchEnd
         THEN /\ i' = i + 1
              /\ UNCHANGED <<pc, first_page, error, result>>
         ELSE /\ Raised(Raise("ValueError", "More than two header pages detected", <<>>))
              /\ UNCHANGED <<i, first_page>>
    /\ UNCHANGED <<entry, pdf_file, pdf_text, pos, yielded, page, securities, raw,
                   expected_lines>>

\* get_pdf_text_bytes: render from first_page to the end of the document.
GetPdfTextBytes ==
    /\ pc = "get_pdf_text_bytes"
    /\ \E run \in ToolRuns :
         IF run # "ok"
         THEN /\ Raised(ToolError(run))
              /\ UNCHANGED pdf_text
         ELSE /\ pdf_text' = Render(pdf_file, first_page, Len(pdf_file))
              /\ pc' = "yield_pages_as_bytes"
              /\ UNCHANGED <<error, result>>
    /\ UNCHANGED <<entry, pdf_file, i, first_page, pos, yielded, page, securities, raw,
                   expected_lines>>

\* page_sep.finditer(pdf_text): the next match at or after pos.
NextPage(text, from) == SearchPageSep(text, from)

\* A variant of Chunk: the span stops before the page feed.
ChunkWithoutFeed(text, m) == Slice(text, m[1], m[2] - 1)

\* pdf_text[page.start():page.end()]
Chunk(text, m) == Slice(text, m[1], m[2])

\* yield_pages_as_bytes: the generator is advanced; it yields the next chunk
\* or is exhausted.  In parse_pdf_index the chunk goes to parse_page and the
\* loop ends with the generator; a caller of the generator alone takes the
\* chunk and asks for the next.
YieldPage ==
    /\ pc = "yield_pages_as_bytes"
    /\ LET m == NextPage(pdf_text, pos)
       IN  IF m = NoMatch
           THEN /\ pc' = IF entry = "parse_pdf_index" THEN "compare" ELSE "exhausted"
                /\ UNCHANGED <<pos, yielded, page>>
           ELSE /\ page' = Chunk(pdf_text, m)
                /\ pos' = m[2]
                /\ yielded' = Append(yielded, m)
                /\ pc' = IF entry = "parse_pdf_index" THEN "parse_page"
                         ELSE "yield_pages_as_bytes"
    /\ UNCHANGED <<entry, pdf_file, i, first_page, pdf_text, securities, raw,
                   expected_lines, error, result>>

\* The value of expected_lines after sec, expected_lines = parse_page(page).
Expected(before, declared) == declared

\* The body of the loop: sec, expected_lines = parse_page(page); extend.
ParsePage ==
    /\ pc = "parse_page"
    /\ LET r == parse_page(page)
       IN  IF r.error # NoError
           THEN /\ Raised(r.error)
                /\ UNCHANGED <<securities, raw, expected_lines>>
           ELSE /\ securities' = securities \o r.securities
                /\ raw' = raw \o r.raw
                /\ expected_lines' = Expected(expected_lines, r.expected_lines)
                /\ pc' = "yield_pages_as_bytes"
                /\ UNCHANGED <<error, result>>
    /\ UNCHANGED <<entry, pdf_file, i, first_page, pdf_text, pos, yielded, page>>

\* str(expected_lines) in the f-string
Format(v) == IF v.tag = "int" THEN IntToStr(v.n) ELSE s_None

CountMismatch(n, expected) ==
    Raise("ValueError", "Total securities {} does not match expectation {}",
          <<IntToStr(n), Format(expected)>>)

\* len(securities) != expected_lines
Differs(n, expected) == expected.tag # "int" \/ expected.n # n

\* After the loop: the comparison, then the return.  With no chunk at all
\* expected_lines was never assigned and reading it raises.
Compare ==
    /\ pc = "compare"
    /\ IF expected_lines = Unbound
       THEN Raised(Raise("UnboundLocalError",
                         "local variable 'expected_lines' referenced before assignment",
                         <<>>))
       ELSE IF Differs(Len(securities), expected_lines)
       THEN Raised(CountMismatch(Len(securities), expected_lines))
       ELSE /\ pc' = "returned"
            /\ result' = securities
            /\ UNCHANGED error
    /\ UNCHANGED <<entry, pdf_file, i, first_page, pdf_text, pos, yielded, page,
                   securities, raw, expected_lines>>

Next ==
    \/ FindFirstPage
    \/ GetPdfTextBytes
    \/ YieldPage
    \/ ParsePage
    \/ Compare

Spec == Init /\ [][Next]_vars

(***************************************************************************)
(* Properties.  Occurrence of a string is restated here position by        *)
(* position, apart from Find and Lower above.                              *)
(***************************************************************************)
OccursAt(sub, s, j) ==
    /\ j + Len(sub) <= Len(s)
    /\ \A n \in 1..Len(sub) : s[j + n] = sub[n]

SameLetter(a, b) == a = b \/ \E n \in 1..26 : {a, b} = {UpperSeq[n], LowerSeq[n]}

OccursAtCI(sub, s, j) ==
    /\ j + Len(sub) <= Len(s)
    /\ \A n \in 1..Len(sub) : SameLetter(s[j + n], sub[n])

Has(sub, s) == \E j \in 0..Len(s) : OccursAt(sub, s, j)
HasCI(sub, s) == \E j \in 0..Len(s) : OccursAtCI(sub, s, j)
HasFrom(sub, s, from) == \E j \in from..Len(s) : OccursAt(sub, s, j)
FirstAt(sub, s) == SetMin({j \in 0..Len(s) : OccursAt(sub, s, j)})

CusipPattern(c) ==
    /\ Len(c) = 11
    /\ \A k \in 1..11 : IF k \in {7, 10} THEN c[k] = " " ELSE c[k] \in AlnumSet

Terminal == pc \in {"returned", "raised"}
ToolFailed == error \in {ToolError("nonzero"), ToolError("missing")}

\* The lines of a chunk that ends with the page feed.
PageLines(p) == Split(SubSeq(p, 1, Len(p) - 1))

\* The chunk decodes and its header is accepted, date and page number found.
HeaderParsed(p) ==
    /\ p # <<>> /\ p[Len(p)] = FF /\ Decodable(p)
    /\ Len(PageLines(p)) >= 4
    /\ validate_header(SubSeq(PageLines(p), 1, 4)) = NoError
    /\ extract_date(PageLines(p)[1]).error = NoError
    /\ extract_pagenum(PageLines(p)[1]).error = NoError

IsBlank(l) == \A k \in 1..Len(l) : l[k] \in WhiteSpace
IsFooter(l) == HasCI(s_total_count, l)
IsDataLine(l) == ~IsBlank(l) /\ ~IsFooter(l)

\* The normalized CUSIP of data line l under header line h.
CusipOf(l, h) ==
    LET raw_slice == Slice(l, FirstAt(s_CUSIP_NO, h), FirstAt(s_ISSUER_NAME, h))
    IN  Strip(SelectSeq(raw_slice, LAMBDA c : c # "*"))

\* The lines after the header at which parsing the chunk stops: a footer
\* without a digit, or a data line whose normalized CUSIP is malformed.
StopLines(p) ==
    {k \in 5..Len(PageLines(p)) :
        LET l == PageLines(p)[k]
        IN  /\ ~IsBlank(l)
            /\ IF IsFooter(l) THEN \A n \in 1..Len(l) : l[n] \notin DigitSet
               ELSE ~CusipPattern(CusipOf(l, PageLines(p)[4]))}

(* C1: parse_pdf_index returns the records only if their number equals the
   declared expected total; whenever the two differ (an absent total differs
   from every number) it raises the count-mismatch error, whose message
   carries both numbers, and returns nothing. *)
C1_CountMismatchRaised ==
    [][pc = "compare" =>
         IF expected_lines.tag = "int" /\ expected_lines.n = Len(securities)
         THEN pc' = "returned" /\ result' = securities
         ELSE /\ pc' = "raised" /\ result' = <<>>
              /\ error'.type = "ValueError"
              /\ Len(error'.args) = 2
              /\ error'.args[1] = IntToStr(Len(securities))
              /\ expected_lines.tag = "int" => error'.args[2] = IntToStr(expected_lines.n)]_vars

\* The count a chunk declares in its footer (None if it has no footer).
DeclaredOn(p) == parse_page(p).expected_lines

(* C2: the declared count retained after a page is the page's own if the page
   has a 'total count' footer, and otherwise the last one seen on an earlier
   page: a page without a footer does not reset it to absent. *)
C2_LastDeclaredRetained ==
    [][pc = "parse_page" /\ pc' = "yield_pages_as_bytes" =>
         expected_lines' = IF DeclaredOn(page).tag = "int" THEN DeclaredOn(page)
                           ELSE IF expected_lines.tag = "int" THEN expected_lines
                           ELSE PyNone]_vars

(* C3: every accumulated or returned record has a normalized cusip of the
   form 6 alphanumerics, space, 2 alphanumerics, space, 1 alphanumeric; and a
   document with a data line whose normalized cusip is not of that form fails
   with the malformed-record error naming that value, returning no record. *)
C3_MalformedCusipRejected ==
    /\ \A k \in 1..Len(securities) : CusipPattern(securities[k].cusip)
    /\ \A k \in 1..Len(result) : CusipPattern(result[k].cusip)
    /\ (pc = "raised" /\ HeaderParsed(page) /\ StopLines(page) # {}
          /\ IsDataLine(PageLines(page)[SetMin(StopLines(page))]))
       => /\ error.type = "MalformedDataError"
          /\ error.args = <<CusipOf(PageLines(page)[SetMin(StopLines(page))],
                                    PageLines(page)[4])>>
          /\ result = <<>>

\* A chunk with the four header lines of which one breaks a rule.
HeaderViolation(p) ==
    /\ p # <<>> /\ p[Len(p)] = FF /\ Decodable(p)
    /\ Len(PageLines(p)) >= 4
    /\ LET l == PageLines(p)
       IN  \/ ~HasCI(s_run_date, l[1]) \/ ~HasCI(s_page, l[1])
           \/ ~HasCI(s_run_time, l[2]) \/ ~HasCI(s_year, l[2])
           \/ l[3] # <<>>
           \/ ~Has(s_CUSIP_NO, l[4]) \/ ~Has(s_ISSUER_NAME, l[4])
           \/ ~Has(s_ISSUER_DESCRIPTION, l[4]) \/ ~Has(s_STATUS, l[4])

(* C4: parsing a chunk whose four header lines break a rule of the header
   (line 0 lacks 'run date' or 'page', line 1 lacks 'run time' or 'year', in
   any case; line 2 is not empty; line 3 lacks one of the four labels) fails
   with the header validation error, adds no record, and the document is
   rejected with nothing returned. *)
C4_StrictHeader ==
    [][pc = "parse_page" /\ HeaderViolation(page) =>
         /\ pc' = "raised"
         /\ error' = HeaderError
         /\ securities' = securities
         /\ result' = <<>>]_vars

\* A second page without the STATUS label is rejected after a first page
\* gave a record.
C4_Witness ==
    /\ pc = "raised" /\ error = HeaderError
    /\ Len(securities) > 0
    /\ HeaderViolation(page)
    /\ ~Has(s_STATUS, PageLines(page)[4])

ScenarioRecord ==
    [cusip       |-> <<"1","2","3","4","5","6"," ","7","8"," ","9">>,
     issuer      |-> <<"A","C","M","E"," ","C","O","R","P">>,
     description |-> <<"W","I","D","G","E","T"," ","M","A","K","E","R">>,
     date        |-> <<"1","/","2","/","2","0","2","0">>,
     page        |-> 1,
     optionable  |-> FALSE,
     added       |-> FALSE,
     deleted     |-> FALSE]

(* C5, as in the spec: the scenario document (line 3 'CUSIP NO    ISSUER NAME
   ISSUER DESCRIPTION', without STATUS) is parsed and yields exactly the
   scenario's record. *)
C5_ScenarioAccepted ==
    (pdf_file = <<ScenarioPage>> /\ Terminal /\ ~ToolFailed)
    => pc = "returned" /\ result = <<ScenarioRecord>>

(* C5, amended: the scenario document as written is rejected with the header
   validation error and yields no record; with the STATUS label on line 3 and
   the description aligned to its label the document is parsed and yields
   exactly the scenario's record, the count check (1 against 1) passing. *)
C5_ScenarioWithStatusAccepted ==
    /\ (pdf_file = <<ScenarioPage>> /\ Terminal /\ ~ToolFailed)
       => pc = "raised" /\ error = HeaderError /\ result = <<>>
    /\ (pdf_file = <<AlignedPage>> /\ Terminal /\ ~ToolFailed)
       => /\ pc = "returned" /\ result = <<ScenarioRecord>>
          /\ expected_lines = PyInt(1)

C5_Witness ==
    /\ pdf_file = <<AlignedPage>>
    /\ pc = "returned"
    /\ Len(result) = 1

\* The text of page n rendered alone holds the header marker: 'run date', in
\* any case, with any number of spaces, and a page feed after it.
MarkerAt(text, p) ==
    /\ OccursAtCI(s_run, text, p)
    /\ \E j \in (p + 3)..Len(text) :
          /\ \A n \in (p + 4)..j : text[n] = " "
          /\ OccursAtCI(s_date, text, j)
          /\ \E f \in (j + 5)..Len(text) : text[f] = FF
HasMarker(text) == \E p \in 0..Len(text) : MarkerAt(text, p)
PageText(n) == IF n <= Len(pdf_file) THEN pdf_file[n] ELSE <<>>

(* C6: find_first_page returns the first of the pages 1, 2, 3 whose text,
   rendered alone, matches the header marker pattern, skipping the pages that
   do not match; if none of the three matches it fails with the structural
   error. *)
C6_FirstMatchingPage ==
    /\ first_page # 0 =>
          /\ HasMarker(PageText(first_page))
          /\ \A n \in 1..(first_page - 1) : ~HasMarker(PageText(n))
    /\ (pc = "raised" /\ error.msg = "More than two header pages detected")
       => \A n \in 1..3 : ~HasMarker(PageText(n))
    /\ (pc = "get_pdf_text_bytes") => first_page \in 1..3

(* C7: the chunks yielded are the non-overlapping matches of the page-boundary
   pattern in document order, each ends with the page feed and holds no other
   page feed, and the page-feed check of parse_page never fails on them. *)
C7_ChunksInOrderEndWithFeed ==
    /\ \A k \in 1..Len(yielded) :
          LET s == yielded[k][1]
              e == yielded[k][2]
              from == IF k = 1 THEN 0 ELSE yielded[k - 1][2]
          IN  /\ from <= s /\ s < e /\ e <= Len(pdf_text)
              /\ MarkerAt(pdf_text, s)
              /\ \A p \in from..(s - 1) : ~MarkerAt(pdf_text, p)
              /\ pdf_text[e] = FF
              /\ \A n \in (s + 1)..(e - 1) : pdf_text[n] # FF
    /\ pc = "parse_page" => yielded # <<>>
    /\ yielded # <<>> =>
          /\ page = [n \in 1..(yielded[Len(yielded)][2] - yielded[Len(yielded)][1])
                        |-> pdf_text[yielded[Len(yielded)][1] + n]]
          /\ page[Len(page)] = FF
          /\ parse_page(page).error # PageFeedError
    /\ pc \in {"compare", "exhausted"} =>
          \A p \in pos..Len(pdf_text) : ~MarkerAt(pdf_text, p)
    /\ error # PageFeedError

\* Two chunks were cut out of a text with other bytes before and between
\* them.
C7_Witness ==
    /\ Len(yielded) = 2
    /\ 0 < yielded[1][1]
    /\ yielded[1][2] < yielded[2][1]

(* C8: the flags of a record come from the raw column slices of its line:
   optionable iff the slice from the CUSIP label's offset to the issuer
   label's offset holds '*', added iff the slice from the description label's
   offset on holds 'ADDED', deleted iff it holds 'DELETED'; a record may be
   both added and deleted. *)
C8_FlagsFromRawSlices ==
    /\ Len(raw) = Len(securities)
    /\ \A k \in 1..Len(securities) :
          LET l == raw[k].line
              h == raw[k].line3
          IN  /\ securities[k].optionable
                    = (\E j \in FirstAt(s_CUSIP_NO, h)..(FirstAt(s_ISSUER_NAME, h) - 1) :
                          j < Len(l) /\ l[j + 1] = "*")
              /\ securities[k].added = HasFrom(s_ADDED, l, FirstAt(s_ISSUER_DESCRIPTION, h))
              /\ securities[k].deleted = HasFrom(s_DELETED, l, FirstAt(s_ISSUER_DESCRIPTION, h))

\* A returned record that is optionable, added and deleted, beside one that
\* is none of them.
C8_Witness ==
    /\ pc = "returned"
    /\ \E k \in 1..Len(result) :
          result[k].optionable /\ result[k].added /\ result[k].deleted
    /\ \E k \in 1..Len(result) :
          ~result[k].optionable /\ ~result[k].added /\ ~result[k].deleted

\* The D/D/YYYY part of the first 'run date: D/D/YYYY' token of line l0.
TokenDate(l0) ==
    LET m == SearchRunDate(l0)
    IN  Slice(l0, SetMin({p \in m[1]..m[2] : DateEnd(l0, p) = m[2]}), m[2])

(* C9: every record of a page whose line 0 holds a 'run date: D/D/YYYY' token,
   wherever on the line the token starts, has the token's D/D/YYYY as its
   date; a page whose header is accepted but whose line 0 holds no such token
   fails with the date-extraction error and gives no record. *)
C9_DateOfToken ==
    /\ \A k \in 1..Len(securities) :
          SearchRunDate(raw[k].line0) # NoMatch
          => securities[k].date = TokenDate(raw[k].line0)
    /\ (pc = "raised" /\ page # <<>> /\ Decodable(page) /\ Len(PageLines(page)) >= 4
          /\ validate_header(SubSeq(PageLines(page), 1, 4)) = NoError
          /\ SearchRunDate(PageLines(page)[1]) = NoMatch)
       => error = AttributeError /\ result = <<>>

(* C10: the stored description of a record holds no 'ADDED' and no
   'DELETED'. *)
C10_MarkersStripped ==
    \A k \in 1..Len(securities) :
       /\ ~Has(s_ADDED, securities[k].description)
       /\ ~Has(s_DELETED, securities[k].description)

=============================================================================
